---- MODULE Spec2Model ----
(***************************************************************************)
(* Taint propagation engine of TaintedBySatoshi: the background sync       *)
(* service (seed builder + block scanner) over the two LevelDB stores.     *)
(*                                                                         *)
(* Stores use valueEncoding "json": every value written goes through       *)
(* JSON.stringify and every value read through JSON.parse, so an in-memory *)
(* Infinity is stored as null.  Degrees are therefore modelled as tagged   *)
(* values and JavaScript's comparison rules are modelled explicitly.       *)
(***************************************************************************)
EXTENDS Integers, Sequences, FiniteSets, TLC

(***************************************************************************)
(* Bounds of the model                                                     *)
(***************************************************************************)
\* config.batchSize (default 1000), scaled down
BatchSize == 3
\* config.chunkSize (default 100), scaled down
ChunkSize == 2
\* number of process crashes explored in one behaviour
MaxCrashes == 1
\* attempts per request the client is configured for (MAX_RETRIES, 5 in the source)
MaxRetries == 2
\* requests the client may have in flight (MAX_PARALLEL_REQUESTS, 16 in the source)
MaxParallelRequests == 2
\* requests getBlockHashes and batchGetTransactions issue at once (100 in the source)
RpcBatchSize == 3
\* heights or txids one batched operation is asked for
MaxRequests == 5
\* failed sync passes
MaxPassErrors == 1
\* thresholds of the adaptive interval (1000 and 100 blocks in the source)
VeryBehind == 2
Behind == 1
\* analytics: config.batchSize, the events a run tracks, the flushBatch calls
\* under way at once
AnalyticsBatchSize == 2
MaxEvents == 4
MaxFlushes == 2

(***************************************************************************)
(* JavaScript values that occur as degrees                                 *)
(***************************************************************************)
Num(n) == [t |-> "num", n |-> n]
\* the in-memory value Infinity
INF == [t |-> "inf", n |-> 0]
\* JSON null, as read back from a store
JNULL == [t |-> "null", n |-> 0]
\* the object {address, degree: 0, txHash, blockHeight} the seed builder stores
SEEDOBJ == [t |-> "obj", n |-> 0]
\* key not found (db.get throws LEVEL_NOT_FOUND)
ABSENT == [t |-> "absent", n |-> 0]

\* ToNumber as used by the relational operators: null -> 0, an object -> NaN
ToNumber(v) ==
  IF v.t = "num" THEN [nan |-> FALSE, inf |-> FALSE, n |-> v.n]
  ELSE IF v.t = "inf" THEN [nan |-> FALSE, inf |-> TRUE, n |-> 0]
  ELSE IF v.t = "null" THEN [nan |-> FALSE, inf |-> FALSE, n |-> 0]
  ELSE [nan |-> TRUE, inf |-> FALSE, n |-> 0]

\* a < b
JsLess(a, b) ==
  LET x == ToNumber(a)
      y == ToNumber(b)
  IN  /\ ~x.nan
      /\ ~y.nan
      /\ IF x.inf THEN FALSE ELSE IF y.inf THEN TRUE ELSE x.n < y.n

\* a <= b
JsLessEq(a, b) ==
  LET x == ToNumber(a)
      y == ToNumber(b)
  IN  /\ ~x.nan
      /\ ~y.nan
      /\ IF y.inf THEN TRUE ELSE IF x.inf THEN FALSE ELSE x.n <= y.n

\* a === b for a, b read from a store or held in memory (two objects read
\* from the store are never identical to a number)
JsStrictEq(a, b) ==
  /\ a.t = b.t
  /\ a.t \in {"num", "inf", "null"}
  /\ a.n = b.n

\* minDegree + 1
JsPlusOne(v) == IF v.t = "num" THEN Num(v.n + 1) ELSE v

\* JSON.stringify followed by JSON.parse of a degree value
JsonRoundTrip(v) == IF v.t = "inf" THEN JNULL ELSE v

\* degree !== undefined && degree !== null, for a value read with db.get
ReadsAsTainted(v) == v.t \notin {"absent", "null"}


(***************************************************************************)
(* Blocks as the node returns them (getblock, verbosity 2)                 *)
(***************************************************************************)
NoAddr == "none"
\* SATOSHI_ADDRESSES once loadSatoshiAddresses() has run
SATOSHI_ADDRESSES == <<"S">>
\* EARLY_BLOCKS and PATOSHI_BLOCKS: the heights whose coinbase is a seed
SeedHeights == {0}

IsSatoshi(address) == \E i \in 1..Len(SATOSHI_ADDRESSES) : SATOSHI_ADDRESSES[i] = address

\* a scriptPubKey: a standard script paying `a`, or a non-standard script
Pay(a) == [type |-> "standard", address |-> a]
NonStandard == [type |-> "nonstandard", address |-> NoAddr]
\* an input whose prevout the node did not include
NoPrevout == [type |-> "missing", address |-> NoAddr]

\* bitcoinRPC.getAddressFromScript: the address of a standard script, none
\* (falsy) otherwise
getAddressFromScript(scriptPubKey) ==
  IF scriptPubKey.type = "standard" THEN scriptPubKey.address ELSE NoAddr

Truthy(address) == address # NoAddr

CoinbaseIn == [coinbase |-> TRUE, txid |-> "", vout |-> 0, prevout |-> NoPrevout]
In(txid, vout, spk) == [coinbase |-> FALSE, txid |-> txid, vout |-> vout, prevout |-> spk]
Tx(txid, vin, vout) == [txid |-> txid, vin |-> vin, vout |-> vout]
Coinbase(txid, a) == Tx(txid, <<CoinbaseIn>>, <<Pay(a)>>)

\* block 0 is a seed block: its coinbase pays the seed address
Block0 == <<Coinbase("cb0", "S")>>
SeedOut == In("cb0", 0, Pay("S"))
\* an output that no scanned transaction created: never tainted
External == In("ext", 0, Pay("E"))

DestChoices == {Pay("A"), Pay("B"), Pay("S"), NonStandard}

\* scenario: the seed outpoint is spent in block 1, its output in block 2
LinearChains ==
  { << Block0,
       <<Coinbase("cb1", "M"), Tx("t1", <<SeedOut>>, <<d1>>)>>,
       <<Coinbase("cb2", "M"), Tx("t2", <<In("t1", 0, d1)>>, <<d2>>)>> >>
    : d1 \in DestChoices, d2 \in {Pay("A"), Pay("B"), Pay("S")} }

\* scenario: the seed outpoint is spent and its output spent again in block 1
IntraBlockChains ==
  { << Block0,
       <<Coinbase("cb1", "M"), Tx("t1", <<SeedOut>>, <<d1, Pay("A")>>),
         Tx("t2", <<In("t1", 0, d1)>>, <<d2>>)>>,
       <<Coinbase("cb2", "M"), Tx("t3", <<In("t2", 0, d2), In("t1", 1, Pay("A"))>>, <<Pay("B")>>)>> >>
    : d1 \in {Pay("A"), NonStandard}, d2 \in {Pay("A"), Pay("B")} }

\* scenario: untainted coins are sent to the seed address with change to A,
\* the change is spent on, and block 2 merges two inputs
MergeInputs ==
  { <<In("t2", 0, Pay("B")), In("t1", 1, Pay("A"))>>,
    <<In("t1", 1, Pay("A")), In("t2", 0, Pay("B"))>>,
    <<SeedOut, In("t2", 0, Pay("B"))>>,
    <<In("t2", 0, Pay("B")), SeedOut>> }

PaySeedChains ==
  { << Block0,
       <<Coinbase("cb1", "M"), Tx("t1", <<External>>, <<Pay("S"), Pay("A"), Pay("A")>>),
         Tx("t2", <<In("t1", 2, Pay("A"))>>, <<Pay("B"), d2>>)>>,
       <<Coinbase("cb2", "M"), Tx("t3", ins, <<Pay("C")>>)>> >>
    : d2 \in {Pay("A"), NonStandard}, ins \in MergeInputs }

\* scenario: B is reached at degree 2 in block 1 (A at 0, X at 1), and block 2
\* pays B again: from A's degree-0 coins, from B's own coins, from the seed
\* outpoint, or next to a payment to the seed address
SecondPayments ==
  { [ins |-> <<In("t1", 2, Pay("A"))>>, outs |-> <<Pay("B")>>],
    [ins |-> <<In("t3", 0, Pay("B"))>>, outs |-> <<Pay("B")>>],
    [ins |-> <<SeedOut>>, outs |-> <<Pay("B")>>],
    [ins |-> <<External>>, outs |-> <<Pay("S"), Pay("B")>>] }

UpgradeChains ==
  { << Block0,
       <<Coinbase("cb1", "M"), Tx("t1", <<External>>, <<Pay("S"), Pay("A"), Pay("A")>>),
         Tx("t2", <<In("t1", 1, Pay("A"))>>, <<Pay("X")>>),
         Tx("t3", <<In("t2", 0, Pay("X"))>>, <<Pay("B")>>)>>,
       <<Coinbase("cb2", "M"), Tx("t4", p.ins, p.outs)>> >>
    : p \in SecondPayments }

\* scenario: B receives the seed outpoint in block 1, next to a payment to the
\* seed address with change to A; block 2 pays B from A's change
LateNumberChains ==
  { << Block0,
       <<Coinbase("cb1", "M"), Tx("t1", <<SeedOut>>, <<Pay("B")>>),
         Tx("t2", <<External>>, <<Pay("S"), Pay("A")>>)>>,
       <<Coinbase("cb2", "M"), Tx("t4", <<In("t2", 1, Pay("A"))>>, <<Pay("B")>>)>> >> }

\* scenario: a payment to the seed address makes three addresses tainted in
\* one transaction, and the coins of the first are spent on in the same block
ManyRecipientsChains ==
  { << Block0,
       <<Coinbase("cb1", "M"),
         Tx("t1", <<External>>, <<Pay("S"), Pay("A"), Pay("C"), Pay("D")>>),
         Tx("t2", <<In("t1", 1, Pay("A"))>>, <<Pay("B")>>)>>,
       <<Coinbase("cb2", "M"), Tx("t3", <<In("t2", 0, Pay("B"))>>, <<Pay("X")>>)>> >> }

Chains ==
  LinearChains \cup IntraBlockChains \cup PaySeedChains \cup UpgradeChains
  \cup LateNumberChains \cup ManyRecipientsChains


(***************************************************************************)
(* Key-value helpers: a store, or a Map, is a function on its keys         *)
(***************************************************************************)
Empty == [k \in {} |-> ABSENT]
Has(f, k) == k \in DOMAIN f
Get(f, k) == IF k \in DOMAIN f THEN f[k] ELSE ABSENT
Put(f, k, v) == [x \in DOMAIN f \cup {k} |-> IF x = k THEN v ELSE f[x]]

\* the parent cache is a Map: a sequence of entries in insertion order
\* hard cap tested by processAddressInBatch (10000 in the source), scaled down
ParentCacheMax == 1

CacheHas(cache, k) == \E i \in 1..Len(cache) : cache[i].k = k
CacheGet(cache, k) == cache[CHOOSE i \in 1..Len(cache) : cache[i].k = k].v
\* Map.set: an existing key keeps its position
CacheSet(cache, k, v) ==
  IF CacheHas(cache, k)
  THEN [i \in 1..Len(cache) |-> IF cache[i].k = k THEN [k |-> k, v |-> v] ELSE cache[i]]
  ELSE Append(cache, [k |-> k, v |-> v])
\* Map.delete(Map.keys().next().value)
CacheDropFirst(cache) == IF Len(cache) = 0 THEN cache ELSE Tail(cache)

(***************************************************************************)
(* The main-store batch                                                    *)
(***************************************************************************)
\* safeBatchPut: `mb` is [batch, count, valid, open, cache]; `h` records the
\* block the write belongs to
safeBatchPut(mb, key, value, h) ==
  IF ~mb.valid \/ ~mb.open
  THEN mb
  ELSE [mb EXCEPT !.batch = Append(@, [key |-> key, value |-> value, height |-> h]),
                  !.count = @ + 1]

\* JSON encoding of a TaintRecord or TxRecord on its way to the store
EncodeRecord(rec) == [rec EXCEPT !.degree = JsonRoundTrip(@)]

\* mainBatch.write(): the operations applied in order
RECURSIVE ApplyBatch(_, _)
ApplyBatch(db, batch) ==
  IF batch = <<>>
  THEN db
  ELSE LET op == Head(batch)
           next == IF op.key[1] = "tainted"
                   THEN [db EXCEPT !.tainted = Put(@, op.key[2], EncodeRecord(op.value))]
                   ELSE [db EXCEPT !.tx = Put(@, op.key[2], EncodeRecord(op.value))]
       IN  ApplyBatch(next, Tail(batch))

(***************************************************************************)
(* processAddressInBatch                                                   *)
(***************************************************************************)
\* existing.degree <= currentDegree: a path at least as short is stored
HasShorterOrEqualPath(existing, currentDegree) ==
  JsLessEq(existing.degree, currentDegree)

\* the parent record looked up for sourceAddress, and the cache afterwards:
\* [found, rec, cache]
LookupParent(sourceAddress, db, cache, cap) ==
  IF ~Truthy(sourceAddress)
  THEN [found |-> FALSE, rec |-> ABSENT, cache |-> cache]
  ELSE IF CacheHas(cache, sourceAddress)
  THEN [found |-> TRUE, rec |-> CacheGet(cache, sourceAddress), cache |-> cache]
  ELSE IF Has(db.tainted, sourceAddress)
  THEN LET c1 == IF Len(cache) > cap THEN CacheDropFirst(cache) ELSE cache
       IN  [found |-> TRUE, rec |-> db.tainted[sourceAddress],
            cache |-> CacheSet(c1, sourceAddress, db.tainted[sourceAddress])]
  ELSE [found |-> FALSE, rec |-> ABSENT, cache |-> cache]

processAddressInBatch(address, currentDegree, txid, sourceAddress, db, mb, h) ==
  IF Has(db.tainted, address) /\ HasShorterOrEqualPath(db.tainted[address], currentDegree)
  THEN mb
  ELSE
    LET parent == LookupParent(sourceAddress, db, mb.cache, mb.cap)
        taintData ==
          IF parent.found
          THEN [txHash |-> txid,
                originalSatoshiAddress |-> parent.rec.originalSatoshiAddress,
                degree |-> currentDegree,
                path |-> Append(parent.rec.path,
                                [from |-> sourceAddress, to |-> address, txHash |-> txid])]
          ELSE [txHash |-> txid,
                originalSatoshiAddress |-> address,
                degree |-> currentDegree,
                path |-> <<>>]
        mb1 == IF Has(db.tx, txid)
               THEN mb
               ELSE safeBatchPut(mb, <<"tx", txid>>, [degree |-> currentDegree], h)
        mb2 == safeBatchPut(mb1, <<"tainted", address>>, taintData, h)
        c2 == IF Len(parent.cache) <= mb.cap
              THEN CacheSet(parent.cache, address, taintData)
              ELSE CacheSet(CacheDropFirst(parent.cache), address, taintData)
    IN  [mb2 EXCEPT !.cache = c2]


(***************************************************************************)
(* processBlock                                                            *)
(***************************************************************************)
\* the degree an input is seen with: the in-block map first, the scan store
\* otherwise (ABSENT when db.get throws)
InputDegree(vin, blockTaintedOutpoints, taintedOut) ==
  LET outpoint == <<vin.txid, vin.vout>>
  IN  IF Has(blockTaintedOutpoints, outpoint)
      THEN blockTaintedOutpoints[outpoint]
      ELSE Get(taintedOut, outpoint)

\* step 1: [spreading, minDegree] after the inputs from index i on
RECURSIVE ScanInputs(_, _, _, _, _)
ScanInputs(vins, i, blockTaintedOutpoints, taintedOut, acc) ==
  IF i > Len(vins)
  THEN acc
  ELSE IF vins[i].coinbase
  THEN ScanInputs(vins, i + 1, blockTaintedOutpoints, taintedOut, acc)
  ELSE LET degree == InputDegree(vins[i], blockTaintedOutpoints, taintedOut)
           inBlock == Has(blockTaintedOutpoints, <<vins[i].txid, vins[i].vout>>)
       IN  IF inBlock \/ ReadsAsTainted(degree)
           THEN ScanInputs(vins, i + 1, blockTaintedOutpoints, taintedOut,
                  [spreading |-> TRUE,
                   minDegree |-> IF JsLess(degree, acc.minDegree) THEN degree ELSE acc.minDegree])
           ELSE ScanInputs(vins, i + 1, blockTaintedOutpoints, taintedOut, acc)

\* step 2: some output with an address pays a known Satoshi address
GoesToSatoshi(tx) ==
  \E j \in 1..Len(tx.vout) :
    /\ Truthy(getAddressFromScript(tx.vout[j]))
    /\ IsSatoshi(getAddressFromScript(tx.vout[j]))

\* the classification with the seed rule marking the transaction as spreading
\* but leaving minDegree as the inputs gave it
ClassifyKeepingInputDegree(tx, blockTaintedOutpoints, taintedOut) ==
  LET byInputs == ScanInputs(tx.vin, 1, blockTaintedOutpoints, taintedOut,
                             [spreading |-> FALSE, minDegree |-> INF])
  IN  IF GoesToSatoshi(tx)
      THEN [spreading |-> TRUE, minDegree |-> byInputs.minDegree]
      ELSE byInputs

\* [spreading, minDegree] of a transaction
Classify(tx, blockTaintedOutpoints, taintedOut) ==
  LET byInputs == ScanInputs(tx.vin, 1, blockTaintedOutpoints, taintedOut,
                             [spreading |-> FALSE, minDegree |-> INF])
  IN  IF GoesToSatoshi(tx)
      THEN [spreading |-> TRUE, minDegree |-> Num(-1)]
      ELSE byInputs

\* formattedTx.inputs.find(inp => inp.prev_out && inp.prev_out.addr): the
\* formatted address is prevout.scriptPubKey.addresses[0] || input.address,
\* fields the verbose block of the node does not carry
FormattedInputAddr(tx) == NoAddr

\* the source address: the first input whose degree is minDegree and whose
\* prevout yields an address
RECURSIVE FindSource(_, _, _, _, _)
FindSource(tx, i, minDegree, blockTaintedOutpoints, taintedOut) ==
  IF i > Len(tx.vin)
  THEN NoAddr
  ELSE IF tx.vin[i].coinbase
  THEN FindSource(tx, i + 1, minDegree, blockTaintedOutpoints, taintedOut)
  ELSE LET inputDegree == InputDegree(tx.vin[i], blockTaintedOutpoints, taintedOut)
           candidate == IF tx.vin[i].prevout.type # "missing"
                        THEN getAddressFromScript(tx.vin[i].prevout)
                        ELSE FormattedInputAddr(tx)
       IN  IF /\ inputDegree.t \notin {"absent", "null"}
              /\ JsStrictEq(inputDegree, minDegree)
              /\ Truthy(candidate)
           THEN candidate
           ELSE FindSource(tx, i + 1, minDegree, blockTaintedOutpoints, taintedOut)

\* no output is ever skipped
AlreadyTaintedNever(map, taintedOut, outpoint) == FALSE

\* an output is skipped when only the in-block map is consulted
AlreadyTaintedInBlockOnly(map, taintedOut, outpoint) == Has(map, outpoint)

\* alreadyTainted: the outpoint is in the in-block map, or the scan store holds
\* a value for it that is neither undefined nor null
AlreadyTainted(map, taintedOut, outpoint) ==
  \/ Has(map, outpoint)
  \/ ReadsAsTainted(Get(taintedOut, outpoint))

\* the loop over ALL outputs of a spreading transaction, from index j on;
\* ctx is [map, outBatch, mb]
RECURSIVE ProcessOutputs(_, _, _, _, _, _, _, _)
ProcessOutputs(tx, j, currentDegree, sourceAddress, taintedOut, db, h, ctx) ==
  IF j > Len(tx.vout)
  THEN ctx
  ELSE LET outpoint == <<tx.txid, j - 1>>
           alreadyTainted == AlreadyTainted(ctx.map, taintedOut, outpoint)
           address == getAddressFromScript(tx.vout[j])
           next ==
             IF alreadyTainted
             THEN ctx
             ELSE [map |-> Put(ctx.map, outpoint, currentDegree),
                   outBatch |-> Append(ctx.outBatch, [key |-> outpoint, value |-> currentDegree]),
                   mb |-> IF Truthy(address)
                          THEN processAddressInBatch(address, currentDegree, tx.txid,
                                                     sourceAddress, db, ctx.mb, h)
                          ELSE ctx.mb,
                   log |-> ctx.log]
       IN  ProcessOutputs(tx, j + 1, currentDegree, sourceAddress, taintedOut, db, h, next)

\* one transaction of the block
ProcessTx(tx, taintedOut, db, h, ctx) ==
  LET c == Classify(tx, ctx.map, taintedOut)
      byInputs == ScanInputs(tx.vin, 1, ctx.map, taintedOut,
                             [spreading |-> FALSE, minDegree |-> INF])
      currentDegree == JsPlusOne(c.minDegree)
      sourceAddress == FindSource(tx, 1, c.minDegree, ctx.map, taintedOut)
      entry == [txid |-> tx.txid, spreading |-> c.spreading, minDegree |-> c.minDegree,
                inputTainted |-> byInputs.spreading,
                currentDegree |-> currentDegree,
                sourceAddress |-> IF c.spreading THEN sourceAddress ELSE NoAddr]
      logged == [ctx EXCEPT !.log = Append(@, entry)]
  IN  IF c.spreading
      THEN ProcessOutputs(tx, 1, currentDegree, sourceAddress, taintedOut, db, h, logged)
      ELSE logged

RECURSIVE ProcessTxs(_, _, _, _, _, _)
ProcessTxs(block, i, taintedOut, db, h, ctx) ==
  IF i > Len(block)
  THEN ctx
  ELSE ProcessTxs(block, i + 1, taintedOut, db, h, ProcessTx(block[i], taintedOut, db, h, ctx))

\* taintedOutBatch.write(): values pass through the JSON encoding
RECURSIVE WriteOutBatch(_, _)
WriteOutBatch(taintedOut, outBatch) ==
  IF outBatch = <<>>
  THEN taintedOut
  ELSE WriteOutBatch(Put(taintedOut, Head(outBatch).key, JsonRoundTrip(Head(outBatch).value)),
                     Tail(outBatch))

\* processBlock: [taintedOut, mb, log] after the block at height h; the log
\* keeps what was decided for each transaction and the tainted_out batch written
processBlock(block, taintedOut, db, mb, h) ==
  LET ctx == ProcessTxs(block, 1, taintedOut, db, h,
                        [map |-> Empty, outBatch |-> <<>>, mb |-> mb, log |-> <<>>])
  IN  [taintedOut |-> WriteOutBatch(taintedOut, ctx.outBatch),
       mb |-> ctx.mb,
       log |-> [txs |-> ctx.log, written |-> ctx.outBatch]]


(***************************************************************************)
(* The RPC client and the timing of the sync loop                          *)
(***************************************************************************)
\* call(): one client.post; its outcome is the node's answer to that attempt
call(answers) == answers[1]

\* the delay syncLoop chooses; -2 stands for null, and a height of 0 is falsy
chooseInterval(curHeight, lastProcessed) ==
  IF curHeight \notin {-2, 0} /\ lastProcessed # -2
  THEN LET blocksBehind == curHeight - lastProcessed
       IN  IF blocksBehind > VeryBehind THEN "5s"
           ELSE IF blocksBehind > Behind THEN "30s"
           ELSE IF blocksBehind > 0 THEN "2min"
           ELSE "syncInterval"
  ELSE "30s"


(***************************************************************************)
(* State                                                                   *)
(***************************************************************************)
VARIABLES
  chain,               \* the node's best chain: chain[h + 1] is the block at height h
  mainStore,           \* main store: [tainted: address -> TaintRecord, tx: txid -> TxRecord]
  taintedOut,          \* scan store, tainted_out:<txid>:<vout>
  scanProgress,        \* scan store, scan_progress
  coinbaseInitialized, \* scan store, satoshi_coinbase_initialized present
  isRunning, isSyncing, dbReady,
  addrInitPending,     \* the setImmediate callback of ensureInitialized step 4
  coinbaseInit,        \* the setImmediate callback of step 5: "none", "pending",
                       \* "written", or "skipped" when it found the flag and returned
  mb,                  \* mainDb, mainBatch, batchCount, batchIsValid, parentTaintingCache
  pc,                  \* position of the sync pass: "idle", "block", "processed", "final"
  height, endBlock,    \* loop variable and bound of syncNewBlocks
  currentHeight, lastProcessedBlock, \* -2 stands for null
  blockLog,            \* what processBlock decided for each transaction of the last block
  windowFailed,        \* first height that failed in the running window, -1 if none
  crashes,             \* process crashes so far
  lastCheck,           \* the last answer of GET /api/check/:address
  nodeIBD,             \* the node reports initialblockdownload
  exited,              \* the last start() ended in process.exit(1)
  timers,              \* pending invocations of syncLoop
  passErrors,          \* sync passes that ended in the catch of checkAndSync
  failedFetch,         \* the kind of failure of the first failed block of the window
  nextInterval,        \* the delay of the timer syncLoop set last, "none" once it has fired
  rpc,                 \* the RPC client's batched operation under way
  bulk,                \* the bulk scan of getAddressTransactions: its loop variable and bound
  initialized,         \* bitcoinRPC.initialized: the connection test has passed in this process
  passes,              \* the invocations of checkAndSync between isSyncing = true and its finally
  seedFile,            \* data/satoshiAddresses.js: "present", "absent", "extracting" (absent, the
                       \* background extraction is scheduled), "extracted" (written by the extraction)
  analytics            \* AnalyticsService: isRunning, eventBatch, the flushBatch calls under way,
                       \* and the analytics store (daily:<day>.pageViews, analytics:totals)

persistent == <<chain, mainStore, taintedOut, scanProgress, coinbaseInitialized>>
volatile == <<isRunning, isSyncing, dbReady, addrInitPending, coinbaseInit, mb, pc,
              height, endBlock, currentHeight, lastProcessedBlock, blockLog, windowFailed>>
vars == <<chain, mainStore, taintedOut, scanProgress, coinbaseInitialized,
          isRunning, isSyncing, dbReady, addrInitPending, coinbaseInit, mb, pc,
          height, endBlock, currentHeight, lastProcessedBlock, blockLog, windowFailed,
          crashes, lastCheck,
          nodeIBD, exited, timers, passErrors, failedFetch, nextInterval, rpc, bulk, initialized, passes, seedFile, analytics>>

Tip == Len(chain) - 1
BlockAt(h) == chain[h + 1]

NoLog == [txs |-> <<>>, written |-> <<>>]
NoProgress == [present |-> FALSE, lastBlock |-> -1]
\* the constructor's batch state
NoBatch == [db |-> FALSE, open |-> FALSE, batch |-> <<>>, count |-> 0, valid |-> FALSE,
            cache |-> <<>>, cap |-> ParentCacheMax]

\* resetBatch
resetBatch(m) ==
  IF m.db
  THEN [m EXCEPT !.open = TRUE, !.batch = <<>>, !.count = 0, !.valid = TRUE]
  ELSE m

\* flushBatch: [store, mb]; `ok` is whether mainBatch.write() succeeds
flushBatch(m, store, ok) ==
  IF m.open /\ m.count > 0 /\ m.valid
  THEN IF ok
       THEN [store |-> ApplyBatch(store, m.batch),
             mb |-> [m EXCEPT !.batch = <<>>, !.count = 0, !.valid = FALSE]]
       ELSE [store |-> store, mb |-> [m EXCEPT !.valid = FALSE]]
  ELSE [store |-> store, mb |-> m]

\* the record ensureInitialized writes for a Satoshi address
SeedRecord(address) ==
  [txHash |-> "", originalSatoshiAddress |-> address, degree |-> Num(0), path |-> <<>>]

RECURSIVE PutSeeds(_, _)
PutSeeds(t, i) ==
  IF i > Len(SATOSHI_ADDRESSES)
  THEN t
  ELSE PutSeeds(Put(t, SATOSHI_ADDRESSES[i], SeedRecord(SATOSHI_ADDRESSES[i])), i + 1)

\* the outpoints initializeCoinbaseOutputs puts for the heights it could fetch
CoinbaseOutpoints(heights) ==
  UNION { { <<BlockAt(h)[1].txid, j - 1>> : j \in 1..Len(BlockAt(h)[1].vout) } : h \in heights }

\* what the node answers to the successive attempts of one request
NodeAnswers == [1..MaxRetries -> {"ok", "error"}]
\* a failed first attempt is transient when a later attempt would be answered
FetchKind(answers) ==
  IF \E i \in 2..MaxRetries : answers[i] = "ok" THEN "transient" ELSE "persistent"
NoFetch == "none"
\* no batched operation of the RPC client under way
NoRpc == [op |-> "idle", next |-> 0, end |-> 0, inFlight |-> 0]

\* no bulk scan under way
NoBulk == [active |-> FALSE, height |-> 0, currentHeight |-> 0]

\* no request answered yet
NoBody == [isConnected |-> FALSE, isSatoshiAddress |-> FALSE, degree |-> ABSENT,
           connectionPath |-> <<>>]
NoCheck == [address |-> NoAddr, lookup |-> "none", found |-> FALSE, status |-> 0,
            body |-> NoBody]

\* no flushBatch call in this slot
NoFlush == [stage |-> "none", events |-> 0, pageViews |-> 0, totalPageViews |-> 0]

\* the analytics service after its constructor, the analytics store empty;
\* `accepted` counts the events trackEvent has pushed
NoAnalytics ==
  [isRunning |-> FALSE, eventBatch |-> 0, accepted |-> 0,
   flushes |-> [i \in 1..MaxFlushes |-> NoFlush],
   pageViews |-> 0, totalPageViews |-> 0]

\* the service after its constructor, the stores empty
InitMemory ==
  /\ chain \in Chains
  /\ mainStore = [tainted |-> Empty, tx |-> Empty]
  /\ taintedOut = Empty
  /\ scanProgress = NoProgress
  /\ coinbaseInitialized = FALSE
  /\ isRunning = FALSE
  /\ isSyncing = FALSE
  /\ dbReady = FALSE
  /\ addrInitPending = FALSE
  /\ coinbaseInit = "none"
  /\ mb = NoBatch
  /\ pc = "idle"
  /\ height = 0
  /\ endBlock = 0
  /\ currentHeight = -2
  /\ lastProcessedBlock = -2
  /\ blockLog = NoLog
  /\ windowFailed = -1
  /\ crashes = 0
  /\ lastCheck = NoCheck
  /\ nodeIBD \in BOOLEAN
  /\ exited = FALSE
  /\ timers = 0
  /\ passErrors = 0
  /\ failedFetch = NoFetch
  /\ nextInterval = "none"
  /\ rpc = NoRpc
  /\ bulk = NoBulk
  /\ initialized = FALSE
  /\ passes = 0
  /\ analytics = NoAnalytics

\* the seed address file has been generated before the server is started
Init == InitMemory /\ seedFile = "present"


(***************************************************************************)
(* Start-up: start() and ensureInitialized()                               *)
(***************************************************************************)
\* start(): bitcoinRPC.initialize() returns at once when the client is already
\* initialized; else it tests the connection and ends the process when the node
\* reports initialblockdownload; otherwise ensureInitialized loads the addresses, opens
\* the main store, sets dbReady and schedules the two initialization callbacks,
\* and startSyncLoop makes the first invocation of syncLoop
Start ==
  /\ ~isRunning
  /\ ~bulk.active
  /\ IF ~initialized /\ nodeIBD
     THEN /\ exited' = TRUE
          /\ UNCHANGED <<isRunning, dbReady, addrInitPending, coinbaseInit, timers,
                         initialized, seedFile, analytics>>
     ELSE IF seedFile \in {"absent", "extracting"}
     THEN /\ exited' = FALSE
          /\ initialized' = TRUE
          /\ isRunning' = TRUE
          /\ seedFile' = "extracting"
          /\ timers' = timers + 1
          /\ UNCHANGED <<dbReady, addrInitPending, coinbaseInit>>
     ELSE /\ exited' = FALSE
          /\ initialized' = TRUE
          /\ isRunning' = TRUE
          /\ dbReady' = TRUE
          /\ addrInitPending' = TRUE
          /\ coinbaseInit' = "pending"
          /\ timers' = timers + 1
          /\ UNCHANGED seedFile
  /\ UNCHANGED <<persistent, isSyncing, mb, pc, height, endBlock, currentHeight,
                 lastProcessedBlock, blockLog, windowFailed, crashes, lastCheck,
                 nodeIBD, passErrors, failedFetch, nextInterval, rpc, bulk, passes, analytics>>

\* the background extraction of step 1 succeeds: the file is written and
\* loadSatoshiAddresses fills SATOSHI_ADDRESSES
ExtractionSucceeds ==
  /\ seedFile = "extracting"
  /\ seedFile' = "extracted"
  /\ UNCHANGED <<persistent, volatile, crashes, lastCheck, nodeIBD, exited, timers,
                 passErrors, failedFetch, nextInterval, rpc, bulk, initialized, passes, analytics>>

\* the background extraction throws: the error is logged
ExtractionFails ==
  /\ seedFile = "extracting"
  /\ seedFile' = "absent"
  /\ UNCHANGED <<persistent, volatile, crashes, lastCheck, nodeIBD, exited, timers,
                 passErrors, failedFetch, nextInterval, rpc, bulk, initialized, passes, analytics>>

\* a tick that finds dbReady false: checkAndSync logs that it waits for the
\* database and returns, and syncLoop chooses the interval and sets the timer
TickNotReady ==
  /\ isRunning
  /\ timers > 0
  /\ ~isSyncing
  /\ ~dbReady
  /\ nextInterval' = chooseInterval(currentHeight, lastProcessedBlock)
  /\ UNCHANGED <<persistent, volatile, crashes, lastCheck, nodeIBD, exited, timers,
                 passErrors, failedFetch, rpc, bulk, initialized, passes, seedFile, analytics>>

\* the node is restarted with a tip older than its maximum tip age: it
\* reports initialblockdownload again
NodeRestarts ==
  /\ ~nodeIBD
  /\ nodeIBD' = TRUE
  /\ UNCHANGED <<persistent, volatile, crashes, lastCheck, exited, timers, passErrors,
                 failedFetch, nextInterval, rpc, bulk, initialized, passes, seedFile, analytics>>

\* the node finishes its initial block download
NodeCompletesIBD ==
  /\ nodeIBD
  /\ nodeIBD' = FALSE
  /\ UNCHANGED <<persistent, volatile, crashes, lastCheck, exited, timers, passErrors,
                 failedFetch, nextInterval, rpc, bulk, initialized, passes, seedFile, analytics>>

\* callback of step 4: write the degree-0 records unless the first one exists
InitSatoshiAddresses ==
  /\ addrInitPending
  /\ addrInitPending' = FALSE
  /\ mainStore' = IF Has(mainStore.tainted, SATOSHI_ADDRESSES[1])
                  THEN mainStore
                  ELSE [mainStore EXCEPT !.tainted = PutSeeds(@, 1)]
  /\ UNCHANGED <<chain, taintedOut, scanProgress, coinbaseInitialized, isRunning, isSyncing,
                 dbReady, coinbaseInit, mb, pc, height, endBlock, currentHeight,
                 lastProcessedBlock, blockLog, windowFailed, crashes, lastCheck,
                 nodeIBD, exited, timers, passErrors, failedFetch, nextInterval, rpc, bulk, initialized, passes, seedFile, analytics>>

\* the callback of step 5 running the seed builder without looking at the flag
InitCoinbaseIgnoringFlag(failures) ==
  /\ coinbaseInit = "pending"
  /\ \E failed \in failures :
       /\ coinbaseInit' = "written"
       /\ taintedOut' =
            [o \in DOMAIN taintedOut \cup CoinbaseOutpoints(SeedHeights \ failed) |->
               IF o \in CoinbaseOutpoints(SeedHeights \ failed) THEN SEEDOBJ ELSE taintedOut[o]]
  /\ UNCHANGED <<chain, mainStore, scanProgress, coinbaseInitialized, isRunning, isSyncing,
                 dbReady, addrInitPending, mb, pc, height, endBlock, currentHeight,
                 lastProcessedBlock, blockLog, windowFailed, crashes, lastCheck,
                 nodeIBD, exited, timers, passErrors, failedFetch, nextInterval, rpc, bulk, initialized, passes, seedFile, analytics>>

\* callback of step 5 up to coinbaseBatch.write(): nothing to do when the flag
\* is present; otherwise every seed block that could be fetched contributes its
\* coinbase outputs (a failed fetch is logged and skipped)
InitCoinbase(failures) ==
  /\ coinbaseInit = "pending"
  /\ IF coinbaseInitialized
     THEN /\ coinbaseInit' = "skipped"
          /\ taintedOut' = taintedOut
     ELSE \E failed \in failures :
            /\ coinbaseInit' = "written"
            /\ taintedOut' =
                 [o \in DOMAIN taintedOut \cup CoinbaseOutpoints(SeedHeights \ failed) |->
                    IF o \in CoinbaseOutpoints(SeedHeights \ failed) THEN SEEDOBJ ELSE taintedOut[o]]
  /\ UNCHANGED <<chain, mainStore, scanProgress, coinbaseInitialized, isRunning, isSyncing,
                 dbReady, addrInitPending, mb, pc, height, endBlock, currentHeight,
                 lastProcessedBlock, blockLog, windowFailed, crashes, lastCheck,
                 nodeIBD, exited, timers, passErrors, failedFetch, nextInterval, rpc, bulk, initialized, passes, seedFile, analytics>>

InitCoinbaseOutputs == InitCoinbase(SUBSET SeedHeights)

\* scanDb.put("satoshi_coinbase_initialized", ...)
MarkCoinbaseInitialized ==
  /\ coinbaseInit = "written"
  /\ coinbaseInit' = "none"
  /\ coinbaseInitialized' = TRUE
  /\ UNCHANGED <<chain, mainStore, taintedOut, scanProgress, isRunning, isSyncing,
                 dbReady, addrInitPending, mb, pc, height, endBlock, currentHeight,
                 lastProcessedBlock, blockLog, windowFailed, crashes, lastCheck,
                 nodeIBD, exited, timers, passErrors, failedFetch, nextInterval, rpc, bulk, initialized, passes, seedFile, analytics>>

(***************************************************************************)
(* The sync pass: checkAndSync() and syncNewBlocks()                       *)
(***************************************************************************)
\* every pass starting at the first block
ResumeFromStart(progress) == -1

\* progress.lastBlock || -1
ResumeFrom(progress) ==
  IF progress.present /\ progress.lastBlock # 0 THEN progress.lastBlock ELSE -1

Min(a, b) == IF a < b THEN a ELSE b

\* a tick whose checkAndSync does not look at isSyncing before it begins
TickIgnoringIsSyncing ==
  /\ isRunning
  /\ timers > 0
  /\ dbReady
  /\ Tip > ResumeFrom(scanProgress)
  /\ currentHeight' = Tip
  /\ lastProcessedBlock' = ResumeFrom(scanProgress)
  /\ isSyncing' = TRUE
  /\ height' = ResumeFrom(scanProgress) + 1
  /\ endBlock' = Min(ResumeFrom(scanProgress) + 1 + ChunkSize - 1, Tip)
  /\ mb' = resetBatch([mb EXCEPT !.db = TRUE])
  /\ pc' = "block"
  /\ timers' = timers - 1
  /\ nextInterval' = "none"
  /\ passes' = passes + 1
  /\ windowFailed' = -1
  /\ failedFetch' = NoFetch
  /\ UNCHANGED <<persistent, isRunning, dbReady, addrInitPending, coinbaseInit, blockLog,
                 crashes, lastCheck, nodeIBD, exited, passErrors, rpc, bulk, initialized, seedFile, analytics>>

\* a tick of the sync loop: checkAndSync up to the first block of the window
Tick ==
  /\ isRunning
  /\ timers > 0
  /\ pc = "idle"
  /\ ~isSyncing
  /\ dbReady
  /\ currentHeight' = Tip
  /\ lastProcessedBlock' = ResumeFrom(scanProgress)
  /\ IF Tip > ResumeFrom(scanProgress)
     THEN /\ isSyncing' = TRUE
          /\ height' = ResumeFrom(scanProgress) + 1
          /\ endBlock' = Min(ResumeFrom(scanProgress) + 1 + ChunkSize - 1, Tip)
          /\ mb' = resetBatch([mb EXCEPT !.db = TRUE])
          /\ pc' = "block"
          /\ timers' = timers - 1
          /\ nextInterval' = "none"
          /\ passes' = passes + 1
     ELSE /\ nextInterval' = chooseInterval(Tip, ResumeFrom(scanProgress))
          /\ UNCHANGED <<isSyncing, height, endBlock, mb, pc, timers, passes>>
  /\ windowFailed' = -1
  /\ failedFetch' = NoFetch
  /\ UNCHANGED <<persistent, isRunning, dbReady, addrInitPending, coinbaseInit, blockLog,
                 crashes, lastCheck, nodeIBD, exited, passErrors, rpc, bulk, initialized, seedFile, analytics>>

\* a tick in which getBlockchainInfo throws: the catch of checkAndSync counts
\* the error, and syncLoop goes on to choose the interval and set the timer
TickFailsEndingLoop ==
  /\ isRunning
  /\ timers > 0
  /\ pc = "idle"
  /\ ~isSyncing
  /\ dbReady
  /\ passErrors < MaxPassErrors
  /\ passErrors' = passErrors + 1
  /\ timers' = timers - 1
  /\ nextInterval' = nextInterval
  /\ UNCHANGED <<persistent, isRunning, isSyncing, dbReady, addrInitPending, coinbaseInit,
                 mb, pc, height, endBlock, currentHeight, lastProcessedBlock, blockLog,
                 windowFailed, crashes, lastCheck, nodeIBD, exited, failedFetch, rpc, bulk, initialized, passes, seedFile, analytics>>

TickFails ==
  /\ isRunning
  /\ timers > 0
  /\ pc = "idle"
  /\ ~isSyncing
  /\ dbReady
  /\ passErrors < MaxPassErrors
  /\ passErrors' = passErrors + 1
  /\ timers' = timers
  /\ nextInterval' = chooseInterval(currentHeight, lastProcessedBlock)
  /\ UNCHANGED <<persistent, isRunning, isSyncing, dbReady, addrInitPending, coinbaseInit,
                 mb, pc, height, endBlock, currentHeight, lastProcessedBlock, blockLog,
                 windowFailed, crashes, lastCheck, nodeIBD, exited, failedFetch, rpc, bulk, initialized, passes, seedFile, analytics>>

\* the timer fires after stop(): syncLoop returns without a new timer
LoopExit ==
  /\ timers > 0
  /\ ~isRunning
  /\ timers' = timers - 1
  /\ UNCHANGED <<persistent, volatile, crashes, lastCheck, nodeIBD, exited, passErrors,
                 failedFetch, nextInterval, rpc, bulk, initialized, passes, seedFile, analytics>>

\* a tick that finds isSyncing set: checkAndSync returns at once, and syncLoop
\* goes on to choose the interval and set the timer
TickSkipped ==
  /\ isRunning
  /\ timers > 0
  /\ isSyncing
  /\ nextInterval' = chooseInterval(currentHeight, lastProcessedBlock)
  /\ UNCHANGED <<persistent, volatile, crashes, lastCheck, nodeIBD, exited, timers,
                 passErrors, failedFetch, rpc, bulk, initialized, passes, seedFile, analytics>>

\* getblockhash, getblock and processBlock of the block at `height` succeed
ProcessBlock ==
  /\ pc = "block"
  /\ LET r == processBlock(BlockAt(height), taintedOut, mainStore, mb, height)
     IN  /\ taintedOut' = r.taintedOut
         /\ mb' = r.mb
         /\ blockLog' = r.log
  /\ pc' = "processed"
  /\ UNCHANGED <<chain, mainStore, scanProgress, coinbaseInitialized, isRunning, isSyncing,
                 dbReady, addrInitPending, coinbaseInit, height, endBlock, currentHeight,
                 lastProcessedBlock, windowFailed, crashes, lastCheck,
                 nodeIBD, exited, timers, passErrors, failedFetch, nextInterval, rpc, bulk, initialized, passes, seedFile, analytics>>

\* the rest of the loop body: the periodic flush, then scan_progress
Publish(writeOutcomes) ==
  /\ pc = "processed"
  /\ \E timeElapsed \in BOOLEAN, ok \in writeOutcomes :
       LET f == flushBatch(mb, mainStore, ok)
       IN  IF mb.count >= BatchSize \/ timeElapsed
           THEN /\ mainStore' = f.store
                /\ mb' = resetBatch(f.mb)
           ELSE /\ mainStore' = mainStore
                /\ mb' = mb
  /\ scanProgress' = [present |-> TRUE, lastBlock |-> height]
  /\ height' = height + 1
  /\ pc' = IF height + 1 > endBlock THEN "final" ELSE "block"
  /\ blockLog' = NoLog
  /\ UNCHANGED <<chain, taintedOut, coinbaseInitialized, isRunning, isSyncing, dbReady,
                 addrInitPending, coinbaseInit, endBlock, currentHeight, lastProcessedBlock,
                 windowFailed, crashes, lastCheck,
                 nodeIBD, exited, timers, passErrors, failedFetch, nextInterval, rpc, bulk, initialized, passes, seedFile, analytics>>

PublishBlock == Publish(BOOLEAN)

\* getblockhash or getblock throws: the catch logs, resets an invalid batch
\* and the loop continues with the next height
BlockFailsOn(nodeAnswers) ==
  /\ pc = "block"
  /\ \E answers \in nodeAnswers :
       /\ call(answers) = "error"
       /\ failedFetch' = IF windowFailed = -1 THEN FetchKind(answers) ELSE failedFetch
  /\ mb' = IF ~mb.valid THEN resetBatch(mb) ELSE mb
  /\ height' = height + 1
  /\ pc' = IF height + 1 > endBlock THEN "final" ELSE "block"
  /\ windowFailed' = IF windowFailed = -1 THEN height ELSE windowFailed
  /\ UNCHANGED <<persistent, isRunning, isSyncing, dbReady, addrInitPending, coinbaseInit,
                 endBlock, currentHeight, lastProcessedBlock, blockLog, crashes, lastCheck,
                 nodeIBD, exited, timers, passErrors, nextInterval, rpc, bulk, initialized, passes, seedFile, analytics>>

\* the node refuses the request however often it is asked
BlockFails == BlockFailsOn({[i \in 1..MaxRetries |-> "error"]})

\* after the loop: the final flush, mainDb = null, isSyncing = false; back in
\* syncLoop the interval is chosen and the next invocation is scheduled
Finish(writeOutcomes) ==
  /\ pc = "final"
  /\ \E ok \in writeOutcomes :
       LET f == flushBatch(mb, mainStore, ok)
       IN  /\ mainStore' = f.store
           /\ mb' = [f.mb EXCEPT !.db = FALSE]
  /\ isSyncing' = FALSE
  /\ pc' = "idle"
  /\ nextInterval' = chooseInterval(currentHeight, lastProcessedBlock)
  /\ timers' = timers + 1
  /\ passes' = passes - 1
  /\ UNCHANGED <<chain, taintedOut, scanProgress, coinbaseInitialized, isRunning, dbReady,
                 addrInitPending, coinbaseInit, height, endBlock, currentHeight,
                 lastProcessedBlock, blockLog, windowFailed, crashes, lastCheck,
                 nodeIBD, exited, passErrors, failedFetch, rpc, bulk, initialized, seedFile, analytics>>

FinishWindow == Finish(BOOLEAN)

\* the process dies: memory is lost, the stores keep what was committed
Crash ==
  /\ crashes < MaxCrashes
  /\ isRunning
  /\ crashes' = crashes + 1
  /\ isRunning' = FALSE
  /\ isSyncing' = FALSE
  /\ dbReady' = FALSE
  /\ addrInitPending' = FALSE
  /\ coinbaseInit' = "none"
  /\ mb' = NoBatch
  /\ pc' = "idle"
  /\ height' = 0
  /\ endBlock' = 0
  /\ currentHeight' = -2
  /\ lastProcessedBlock' = -2
  /\ blockLog' = NoLog
  /\ windowFailed' = -1
  /\ timers' = 0
  /\ failedFetch' = NoFetch
  /\ nextInterval' = "none"
  /\ initialized' = FALSE
  /\ passes' = 0
  /\ seedFile' = IF seedFile = "extracting" THEN "absent" ELSE seedFile
  /\ UNCHANGED <<persistent, lastCheck, nodeIBD, exited, passErrors, rpc, bulk, analytics>>

\* stop(): isRunning = false, the pending timer is cleared, the batch is flushed, then batchIsValid =
\* false, mainDb = null, dbReady = false; a sync pass under way is not told
Stop(writeOutcomes) ==
  /\ isRunning
  /\ \E ok \in writeOutcomes :
       LET f == flushBatch(mb, mainStore, ok)
       IN  /\ mainStore' = f.store
           /\ mb' = [f.mb EXCEPT !.valid = FALSE, !.db = FALSE]
  /\ isRunning' = FALSE
  /\ timers' = IF timers > 0 THEN timers - 1 ELSE 0
  /\ dbReady' = FALSE
  /\ UNCHANGED <<chain, taintedOut, scanProgress, coinbaseInitialized, isSyncing,
                 addrInitPending, coinbaseInit, pc, height, endBlock, currentHeight,
                 lastProcessedBlock, blockLog, windowFailed, crashes, lastCheck,
                 nodeIBD, exited, passErrors, failedFetch, nextInterval, rpc, bulk, initialized, passes, seedFile, analytics>>

(***************************************************************************)
(* The query service: checkAddressConnection and GET /api/check/:address   *)
(***************************************************************************)
\* the addresses a client asks about; "!" is no Bitcoin address
QueryAddresses == {"S", "A", "E", "!"}
\* what db.get does within the 15 s of the race: it answers (a value or
\* not-found), it rejects with another error, or the timer fires first
Lookups == {"answered", "failed", "timeout"}

validateAndSanitizeAddress(address) == IF address = "!" THEN NoAddr ELSE address

SeedResult ==
  [isConnected |-> TRUE, isSatoshiAddress |-> TRUE, degree |-> Num(0), connectionPath |-> <<>>]
UnconnectedResult ==
  [isConnected |-> FALSE, isSatoshiAddress |-> FALSE, degree |-> Num(0), connectionPath |-> <<>>]
TaintedResult(taintedInfo) ==
  [isConnected |-> TRUE, isSatoshiAddress |-> FALSE, degree |-> taintedInfo.degree,
   connectionPath |-> taintedInfo.path]

\* db.get(`tainted:${address}`).catch(() => null) raced with the timer
LookupFound(address, lookup, store) == lookup = "answered" /\ Has(store.tainted, address)

\* the lookup made before the seed test
checkAddressConnectionStoreFirst(address, lookup, store) ==
  IF lookup = "timeout"
  THEN [outcome |-> "thrown", name |-> "Error", result |-> NoBody]
  ELSE IF LookupFound(address, lookup, store)
  THEN [outcome |-> "returned", name |-> "", result |-> TaintedResult(store.tainted[address])]
  ELSE IF IsSatoshi(address)
  THEN [outcome |-> "returned", name |-> "", result |-> SeedResult]
  ELSE [outcome |-> "returned", name |-> "", result |-> UnconnectedResult]

\* checkAddressConnection: [outcome, name, result]; a timeout rejects with
\* new Error("Database operation timeout"), whose name is "Error"
checkAddressConnection(address, lookup, store) ==
  IF IsSatoshi(address)
  THEN [outcome |-> "returned", name |-> "", result |-> SeedResult]
  ELSE IF lookup = "timeout"
  THEN [outcome |-> "thrown", name |-> "Error", result |-> NoBody]
  ELSE IF ~LookupFound(address, lookup, store)
  THEN [outcome |-> "returned", name |-> "", result |-> UnconnectedResult]
  ELSE [outcome |-> "returned", name |-> "", result |-> TaintedResult(store.tainted[address])]

\* the route handler: 400 for an invalid address, the result as JSON, 503 for
\* an AbortError, 500 for any other error
HandleCheck(address, lookup, store) ==
  IF ~Truthy(validateAndSanitizeAddress(address))
  THEN [status |-> 400, body |-> NoBody]
  ELSE LET r == checkAddressConnection(validateAndSanitizeAddress(address), lookup, store)
       IN  IF r.outcome = "returned"
           THEN [status |-> 200, body |-> r.result]
           ELSE IF r.name = "AbortError"
           THEN [status |-> 503, body |-> NoBody]
           ELSE [status |-> 500, body |-> NoBody]

\* the request answered from a store in which a negative answer is remembered
CheckCachingResult(address, lookup) ==
  /\ lastCheck' = [address |-> address, lookup |-> lookup,
                   found |-> LookupFound(address, lookup, mainStore),
                   status |-> HandleCheck(address, lookup, mainStore).status,
                   body |-> HandleCheck(address, lookup, mainStore).body]
  /\ mainStore' = IF HandleCheck(address, lookup, mainStore).status = 200
                     /\ ~HandleCheck(address, lookup, mainStore).body.isConnected
                  THEN [mainStore EXCEPT !.tx = Put(@, address, [degree |-> Num(0)])]
                  ELSE mainStore
  /\ UNCHANGED <<chain, taintedOut, scanProgress, coinbaseInitialized, isRunning, isSyncing,
                 dbReady, addrInitPending, coinbaseInit, mb, pc, height, endBlock,
                 currentHeight, lastProcessedBlock, blockLog, windowFailed, crashes,
                 nodeIBD, exited, timers, passErrors, failedFetch, nextInterval, rpc, bulk, initialized, passes, seedFile, analytics>>

\* one GET /api/check/:address request, answered
Check(address, lookup) ==
  /\ lastCheck' = [address |-> address, lookup |-> lookup,
                   found |-> LookupFound(address, lookup, mainStore),
                   status |-> HandleCheck(address, lookup, mainStore).status,
                   body |-> HandleCheck(address, lookup, mainStore).body]
  /\ UNCHANGED <<persistent, volatile, crashes, nodeIBD, exited, timers, passErrors, failedFetch, nextInterval, rpc, bulk, initialized, passes, seedFile, analytics>>

CheckAddress == \E address \in QueryAddresses, lookup \in Lookups : Check(address, lookup)

Next ==
  \/ Start
  \/ NodeCompletesIBD
  \/ InitSatoshiAddresses
  \/ InitCoinbaseOutputs
  \/ MarkCoinbaseInitialized
  \/ Tick
  \/ ProcessBlock
  \/ PublishBlock
  \/ BlockFails
  \/ FinishWindow
  \/ Crash

Spec == Init /\ [][Next]_vars

(***************************************************************************)
(* The batched operations of the RPC client                                *)
(***************************************************************************)
\* getBlockHashes(startHeight, endHeight) is called
GetBlockHashes ==
  /\ rpc.op = "idle"
  /\ \E startHeight \in 0..MaxRequests, endHeight \in 0..MaxRequests :
       rpc' = [op |-> "getBlockHashes", next |-> startHeight, end |-> endHeight, inFlight |-> 0]
  /\ UNCHANGED <<persistent, volatile, crashes, lastCheck, nodeIBD, exited, timers,
                 passErrors, failedFetch, nextInterval, bulk, initialized, passes, seedFile, analytics>>

\* batchGetTransactions(txids) is called
BatchGetTransactions ==
  /\ rpc.op = "idle"
  /\ \E length \in 0..MaxRequests :
       rpc' = [op |-> "batchGetTransactions", next |-> 0, end |-> length, inFlight |-> 0]
  /\ UNCHANGED <<persistent, volatile, crashes, lastCheck, nodeIBD, exited, timers,
                 passErrors, failedFetch, nextInterval, bulk, initialized, passes, seedFile, analytics>>

\* one turn of the for loop: a request is issued for every element of the
\* batch, and Promise.all waits for them
IssueBatch ==
  /\ rpc.op # "idle"
  /\ rpc.inFlight = 0
  /\ rpc.next < rpc.end
  /\ rpc' = [rpc EXCEPT !.inFlight = Min(RpcBatchSize, rpc.end - rpc.next),
                        !.next = rpc.next + RpcBatchSize]
  /\ UNCHANGED <<persistent, volatile, crashes, lastCheck, nodeIBD, exited, timers,
                 passErrors, failedFetch, nextInterval, bulk, initialized, passes, seedFile, analytics>>

\* the node answers one of the requests in flight
RequestSettles ==
  /\ rpc.inFlight > 0
  /\ rpc' = [rpc EXCEPT !.inFlight = rpc.inFlight - 1]
  /\ UNCHANGED <<persistent, volatile, crashes, lastCheck, nodeIBD, exited, timers,
                 passErrors, failedFetch, nextInterval, bulk, initialized, passes, seedFile, analytics>>

\* the loop is over: the operation returns its results
RpcReturns ==
  /\ rpc.op # "idle"
  /\ rpc.inFlight = 0
  /\ rpc.next >= rpc.end
  /\ rpc' = NoRpc
  /\ UNCHANGED <<persistent, volatile, crashes, lastCheck, nodeIBD, exited, timers,
                 passErrors, failedFetch, nextInterval, bulk, initialized, passes, seedFile, analytics>>

NextRpc ==
  \/ GetBlockHashes
  \/ BatchGetTransactions
  \/ IssueBatch
  \/ RequestSettles
  \/ RpcReturns

SpecRpc == Init /\ [][NextRpc]_vars


(***************************************************************************)
(* The runs in which the seed builder has finished before the first tick   *)
(* and no RPC call or batch write fails; the process may die between       *)
(* processBlock and the rest of the loop body.                             *)
(***************************************************************************)
SeedsReady ==
  /\ ~addrInitPending
  /\ coinbaseInit \in {"none", "skipped"}
  /\ coinbaseInitialized
  /\ \A i \in 1..Len(SATOSHI_ADDRESSES) : Has(mainStore.tainted, SATOSHI_ADDRESSES[i])

InitCoinbaseOutputsAllFetched == InitCoinbase({{}})
TickAfterSeeding == SeedsReady /\ Tick
PublishBlockWritten == Publish({TRUE})
FinishWindowWritten == Finish({TRUE})
CrashMidBlock == pc = "processed" /\ Crash

NextCrash ==
  \/ Start
  \/ InitSatoshiAddresses
  \/ InitCoinbaseOutputsAllFetched
  \/ MarkCoinbaseInitialized
  \/ TickAfterSeeding
  \/ ProcessBlock
  \/ PublishBlockWritten
  \/ FinishWindowWritten
  \/ CrashMidBlock

SpecCrash == Init /\ [][NextCrash]_vars

(***************************************************************************)
(* The same runs without a crash, with stop() called between processBlock  *)
(* and the rest of the loop body.                                          *)
(***************************************************************************)
StopMidBlock == pc = "processed" /\ Stop(BOOLEAN)

NextStop ==
  \/ Start
  \/ InitSatoshiAddresses
  \/ InitCoinbaseOutputsAllFetched
  \/ MarkCoinbaseInitialized
  \/ TickAfterSeeding
  \/ ProcessBlock
  \/ PublishBlockWritten
  \/ FinishWindowWritten
  \/ StopMidBlock

SpecStop == Init /\ [][NextStop]_vars

(***************************************************************************)
(* The runs of SpecCrash with stop() at any moment and a node that may be  *)
(* restarted into its initial block download.                              *)
(***************************************************************************)
StopService == Stop(BOOLEAN)

LoopChains == LateNumberChains \cup UpgradeChains

InitLoop == Init /\ chain \in LoopChains

NextNode ==
  \/ Start
  \/ NodeCompletesIBD
  \/ NodeRestarts
  \/ InitSatoshiAddresses
  \/ InitCoinbaseOutputsAllFetched
  \/ MarkCoinbaseInitialized
  \/ TickAfterSeeding
  \/ ProcessBlock
  \/ PublishBlockWritten
  \/ FinishWindowWritten
  \/ CrashMidBlock
  \/ StopService
  \/ LoopExit

SpecNode == InitLoop /\ [][NextNode]_vars

(***************************************************************************)
(* The runs of SpecCrash with requests for a block that fail, for good or  *)
(* on the first attempt only.                                              *)
(***************************************************************************)
BlockFailsOnAnyAnswers == BlockFailsOn(NodeAnswers)

NextRetry ==
  \/ NextCrash
  \/ BlockFailsOnAnyAnswers

SpecRetry == Init /\ [][NextRetry]_vars

(***************************************************************************)
(* The runs of SpecCrash with address queries arriving at any moment.      *)
(***************************************************************************)
NextQuery ==
  \/ NextCrash
  \/ CheckAddress

SpecQuery == Init /\ [][NextQuery]_vars


(***************************************************************************)
(* The whole life of the service on a few chains: the seed builder done    *)
(* before the first pass, then failed blocks, failed writes, failed passes,*)
(* crashes, stop() at any moment and timers that fire after a stop.        *)
(***************************************************************************)
\* getAddressTransactions is called by the update script while the service is
\* down (one process holds the scan store): the scan resumes after the stored
\* scan_progress and stops below the tip
BulkScanStart ==
  /\ ~bulk.active
  /\ ~isRunning
  /\ pc = "idle"
  /\ ~nodeIBD
  /\ bulk' = [active |-> TRUE,
              height |-> IF scanProgress.present THEN scanProgress.lastBlock + 1 ELSE 0,
              currentHeight |-> Tip]
  /\ UNCHANGED <<persistent, volatile, crashes, lastCheck, nodeIBD, exited, timers,
                 passErrors, failedFetch, nextInterval, rpc, initialized, passes, seedFile, analytics>>

\* one block of the bulk scan is fetched and processed: scan_progress is saved
BulkBlock ==
  /\ bulk.active
  /\ bulk.height < bulk.currentHeight
  /\ scanProgress' = [present |-> TRUE, lastBlock |-> bulk.height]
  /\ bulk' = [bulk EXCEPT !.height = bulk.height + 1]
  /\ UNCHANGED <<chain, mainStore, taintedOut, coinbaseInitialized, volatile, crashes,
                 lastCheck, nodeIBD, exited, timers, passErrors, failedFetch, nextInterval,
                 rpc, initialized, passes, seedFile, analytics>>

\* a request of the bulk scan throws: the progress before this block is saved
\* and the same height is tried again
BulkBlockFails ==
  /\ bulk.active
  /\ bulk.height < bulk.currentHeight
  /\ scanProgress' = [present |-> TRUE, lastBlock |-> bulk.height - 1]
  /\ UNCHANGED <<chain, mainStore, taintedOut, coinbaseInitialized, volatile, crashes,
                 lastCheck, nodeIBD, exited, timers, passErrors, failedFetch, nextInterval,
                 rpc, bulk, initialized, passes, seedFile, analytics>>

\* the bulk scan reaches its bound, or its process ends
BulkScanEnds ==
  /\ bulk.active
  /\ bulk' = NoBulk
  /\ UNCHANGED <<persistent, volatile, crashes, lastCheck, nodeIBD, exited, timers,
                 passErrors, failedFetch, nextInterval, rpc, initialized, passes, seedFile, analytics>>

NextLoop ==
  \/ Start
  \/ NodeCompletesIBD
  \/ InitSatoshiAddresses
  \/ InitCoinbaseOutputsAllFetched
  \/ MarkCoinbaseInitialized
  \/ TickAfterSeeding
  \/ ProcessBlock
  \/ PublishBlock
  \/ BlockFails
  \/ FinishWindow
  \/ Crash
  \/ StopService
  \/ TickFails
  \/ LoopExit
  \/ BulkScanStart
  \/ BulkBlock
  \/ BulkBlockFails
  \/ BulkScanEnds

SpecLoop == InitLoop /\ [][NextLoop]_vars


(***************************************************************************)
(* The sync loop under start() and stop() at any moment, without crashes:  *)
(* a stopped service may be started again while its last pass still runs.  *)
(***************************************************************************)
NextTicks ==
  \/ Start
  \/ InitSatoshiAddresses
  \/ InitCoinbaseOutputsAllFetched
  \/ MarkCoinbaseInitialized
  \/ TickAfterSeeding
  \/ TickSkipped
  \/ TickFails
  \/ ProcessBlock
  \/ PublishBlock
  \/ BlockFails
  \/ FinishWindow
  \/ StopService
  \/ LoopExit

SpecTicks == InitLoop /\ [][NextTicks]_vars

(***************************************************************************)
(* The service started with or without the seed address file, never        *)
(* stopped; the second specification lets every callback that is ready run. *)
(***************************************************************************)
InitAnyFile == InitMemory /\ chain \in LoopChains /\ seedFile \in {"present", "absent"}

NextSeedFile ==
  \/ Start
  \/ NodeCompletesIBD
  \/ ExtractionSucceeds
  \/ ExtractionFails
  \/ TickNotReady
  \/ InitSatoshiAddresses
  \/ InitCoinbaseOutputsAllFetched
  \/ MarkCoinbaseInitialized
  \/ TickAfterSeeding
  \/ ProcessBlock
  \/ PublishBlock
  \/ FinishWindow

SpecSeedFile == InitAnyFile /\ [][NextSeedFile]_vars

\* the event loop runs every callback that is ready, and a timer that is set
\* fires; ProcessBlock is enabled exactly when pc = "block" and ends with
\* pc = "processed", so its weak fairness is []<>(pc # "block")
SpecSeedFileFair ==
  /\ SpecSeedFile
  /\ WF_vars(ExtractionSucceeds)
  /\ WF_vars(TickNotReady)
  /\ WF_vars(InitSatoshiAddresses)
  /\ WF_vars(InitCoinbaseOutputsAllFetched)
  /\ WF_vars(MarkCoinbaseInitialized)
  /\ WF_vars(TickAfterSeeding)
  /\ []<>(pc # "block")
  /\ WF_vars(PublishBlock)
  /\ WF_vars(FinishWindow)

(***************************************************************************)
(* The analytics service: trackEvent, the flush timer, flushBatch and       *)
(* processEvents; all events of a run fall on one day.                      *)
(***************************************************************************)
\* init(): the store is opened, the flush timer is started, isRunning = true
AnalyticsInit ==
  /\ ~analytics.isRunning
  /\ analytics' = [analytics EXCEPT !.isRunning = TRUE]
  /\ UNCHANGED <<persistent, volatile, crashes, lastCheck, nodeIBD, exited, timers,
                 passErrors, failedFetch, nextInterval, rpc, bulk, initialized, passes,
                 seedFile>>

FreeSlots(a) == {i \in 1..MaxFlushes : a.flushes[i].stage = "none"}

\* flushBatch up to the first await of processEvents: the events are taken out
\* of eventBatch; nothing happens on an empty batch
flushBatch_begin(a, slot) ==
  IF a.eventBatch = 0
  THEN a
  ELSE [a EXCEPT !.eventBatch = 0,
                 !.flushes[slot] = [stage |-> "taken", events |-> a.eventBatch,
                                    pageViews |-> 0, totalPageViews |-> 0]]

\* trackEvent: the event is pushed, and a full batch is flushed
trackEvent ==
  /\ analytics.isRunning
  /\ analytics.accepted < MaxEvents
  /\ FreeSlots(analytics) # {}
  /\ LET pushed == [analytics EXCEPT !.eventBatch = @ + 1, !.accepted = @ + 1]
         slot == CHOOSE i \in FreeSlots(analytics) : \A j \in FreeSlots(analytics) : i <= j
     IN  analytics' = IF pushed.eventBatch >= AnalyticsBatchSize
                      THEN flushBatch_begin(pushed, slot)
                      ELSE pushed
  /\ UNCHANGED <<persistent, volatile, crashes, lastCheck, nodeIBD, exited, timers,
                 passErrors, failedFetch, nextInterval, rpc, bulk, initialized, passes,
                 seedFile>>

\* the flush timer of startBatchProcessor fires on a batch that is not empty
FlushTimer ==
  /\ analytics.isRunning
  /\ analytics.eventBatch > 0
  /\ FreeSlots(analytics) # {}
  /\ LET slot == CHOOSE i \in FreeSlots(analytics) : \A j \in FreeSlots(analytics) : i <= j
     IN  analytics' = flushBatch_begin(analytics, slot)
  /\ UNCHANGED <<persistent, volatile, crashes, lastCheck, nodeIBD, exited, timers,
                 passErrors, failedFetch, nextInterval, rpc, bulk, initialized, passes,
                 seedFile>>

\* processEvents: db.get(`daily:<day>`) answers, and pageViews is counted up
\* by the events of this flush
ReadDaily(slot) ==
  /\ analytics.flushes[slot].stage = "taken"
  /\ analytics' = [analytics EXCEPT
                     !.flushes[slot].stage = "daily",
                     !.flushes[slot].pageViews =
                         analytics.pageViews + analytics.flushes[slot].events]
  /\ UNCHANGED <<persistent, volatile, crashes, lastCheck, nodeIBD, exited, timers,
                 passErrors, failedFetch, nextInterval, rpc, bulk, initialized, passes,
                 seedFile>>

\* processEvents: db.get("analytics:totals") answers, and totalPageViews is
\* counted up by the events of this flush
ReadTotals(slot) ==
  /\ analytics.flushes[slot].stage = "daily"
  /\ analytics' = [analytics EXCEPT
                     !.flushes[slot].stage = "totals",
                     !.flushes[slot].totalPageViews =
                         analytics.totalPageViews + analytics.flushes[slot].events]
  /\ UNCHANGED <<persistent, volatile, crashes, lastCheck, nodeIBD, exited, timers,
                 passErrors, failedFetch, nextInterval, rpc, bulk, initialized, passes,
                 seedFile>>

\* processEvents: batch.write() puts both records, and flushBatch returns
WriteCounts(slot) ==
  /\ analytics.flushes[slot].stage = "totals"
  /\ analytics' = [analytics EXCEPT
                     !.pageViews = analytics.flushes[slot].pageViews,
                     !.totalPageViews = analytics.flushes[slot].totalPageViews,
                     !.flushes[slot] = NoFlush]
  /\ UNCHANGED <<persistent, volatile, crashes, lastCheck, nodeIBD, exited, timers,
                 passErrors, failedFetch, nextInterval, rpc, bulk, initialized, passes,
                 seedFile>>

ReadsDaily == \E slot \in 1..MaxFlushes : ReadDaily(slot)
ReadsTotals == \E slot \in 1..MaxFlushes : ReadTotals(slot)
WritesCounts == \E slot \in 1..MaxFlushes : WriteCounts(slot)

NextAnalytics ==
  \/ AnalyticsInit
  \/ trackEvent
  \/ FlushTimer
  \/ ReadsDaily
  \/ ReadsTotals
  \/ WritesCounts

SpecAnalytics == Init /\ [][NextAnalytics]_vars

(***************************************************************************)
(* Properties                                                              *)
(***************************************************************************)
\* the staged main-store writes for tainted:<address>, in batch order
StagedFor(address) ==
  SelectSeq(mb.batch, LAMBDA op : op.key = <<"tainted", address>>)

\* C1: whenever scan_progress.last_block = H is stored, no write that belongs
\* to a block <= H is still only staged in the main batch, not committed
C1_ProgressAfterCommit ==
  scanProgress.present =>
    \A i \in 1..Len(mb.batch) : mb.batch[i].height > scanProgress.lastBlock

\* the stores of a run that is never interrupted: the seed builder first, then
\* every block up to the tip, each committed before the next
SeededStores ==
  [taintedOut |-> [o \in CoinbaseOutpoints(SeedHeights) |-> SEEDOBJ],
   store |-> [tainted |-> PutSeeds(Empty, 1), tx |-> Empty],
   cache |-> <<>>]

RECURSIVE UninterruptedFrom(_, _)
UninterruptedFrom(h, st) ==
  IF h > Tip
  THEN st
  ELSE LET r == processBlock(BlockAt(h), st.taintedOut, st.store,
                             [db |-> TRUE, open |-> TRUE, batch |-> <<>>, count |-> 0,
                              valid |-> TRUE, cache |-> st.cache,
                              cap |-> ParentCacheMax], h)
           f == flushBatch(r.mb, st.store, TRUE)
       IN  UninterruptedFrom(h + 1, [taintedOut |-> r.taintedOut, store |-> f.store,
                                     cache |-> r.mb.cache])

UninterruptedRun == UninterruptedFrom(0, SeededStores)

ScannedToTip ==
  /\ isRunning
  /\ pc = "idle"
  /\ scanProgress.present
  /\ scanProgress.lastBlock = Tip

\* C2: whatever the crash point, once the scanner has restarted and rescanned
\* to the tip, every address the uninterrupted run gives a tainted: record
\* has one
C2_CrashSafety ==
  (crashes > 0 /\ ScannedToTip) =>
    \A a \in DOMAIN UninterruptedRun.store.tainted : Has(mainStore.tainted, a)

\* d1 is a greater degree than d2 (Infinity is greater than every number)
DegreeGreater(d1, d2) ==
  \/ d1.t = "inf" /\ d2.t = "num"
  \/ d1.t = "num" /\ d2.t = "num" /\ d1.n > d2.n

\* C3: once a degree d is staged or stored for an address, no later write
\* for that address carries a greater degree
C3_AddressDegreeNeverIncreases ==
  /\ \A i, j \in 1..Len(mb.batch) :
       (i < j /\ mb.batch[i].key[1] = "tainted" /\ mb.batch[j].key = mb.batch[i].key)
         => ~DegreeGreater(mb.batch[j].value.degree, mb.batch[i].value.degree)
  /\ \A i \in 1..Len(mb.batch) :
       (mb.batch[i].key[1] = "tainted" /\ Has(mainStore.tainted, mb.batch[i].key[2]))
         => ~DegreeGreater(mb.batch[i].value.degree,
                           mainStore.tainted[mb.batch[i].key[2]].degree)

\* C4: after block H failed in a window, scan_progress is not advanced to H
\* or beyond in that window, and the next tick starts again from H
C4_FailedBlockNotSkipped ==
  [][/\ (windowFailed # -1 /\ scanProgress' # scanProgress)
          => scanProgress'.lastBlock < windowFailed
     /\ (windowFailed # -1 /\ pc = "idle" /\ pc' = "block")
          => height' = windowFailed]_vars

\* C5: no block is processed and scan_progress is not advanced before the seed
\* records and the seed outpoints are written and the flag is present
C5_SeedBuilderBeforeScanner ==
  (pc = "processed" \/ scanProgress.present) =>
    /\ coinbaseInitialized
    /\ \A i \in 1..Len(SATOSHI_ADDRESSES) : Has(mainStore.tainted, SATOSHI_ADDRESSES[i])
    /\ \A o \in CoinbaseOutpoints(SeedHeights) : Has(taintedOut, o)


\* the outpoints the tainted_out batch of the block just processed wrote
WrittenKeys == { blockLog.written[i].key : i \in 1..Len(blockLog.written) }
WrittenValue(o) ==
  blockLog.written[CHOOSE i \in 1..Len(blockLog.written) : blockLog.written[i].key = o].value

\* the block just processed holds, besides its coinbase, one transaction that
\* spends a seed coinbase outpoint and pays one address that is not a seed
DirectRecipientBlock(block) ==
  /\ Len(block) = 2
  /\ Len(block[2].vin) = 1
  /\ ~block[2].vin[1].coinbase
  /\ <<block[2].vin[1].txid, block[2].vin[1].vout>> \in CoinbaseOutpoints(SeedHeights)
  /\ Len(block[2].vout) = 1
  /\ Truthy(getAddressFromScript(block[2].vout[1]))
  /\ ~IsSatoshi(getAddressFromScript(block[2].vout[1]))

\* C6: the seed builder has recorded the seed outpoint; a block whose single
\* transaction spends it and pays one new address A gives tainted:A degree 1
\* and a path of exactly one hop from the seed address to A
C6_DirectRecipient ==
  LET block == BlockAt(height)
      spent == <<block[2].vin[1].txid, block[2].vin[1].vout>>
      A == getAddressFromScript(block[2].vout[1])
      staged == StagedFor(A)
  IN  ( /\ pc = "processed"
        /\ DirectRecipientBlock(block)
        /\ Get(taintedOut, spent) = SEEDOBJ
        /\ ~Has(mainStore.tainted, A)
        /\ <<block[2].txid, 0>> \in WrittenKeys )
      => /\ Len(staged) > 0
         /\ staged[Len(staged)].value.degree = Num(1)
         /\ Len(staged[Len(staged)].value.path) = 1
         /\ IsSatoshi(staged[Len(staged)].value.path[1].from)
         /\ staged[Len(staged)].value.path[1].to = A

\* C8: after a block, every output of each of its transactions that spent a
\* tainted outpoint has a tainted_out entry that a later spend reads as tainted
C8_AllOutputsTainted ==
  pc = "processed" =>
    \A i \in 1..Len(blockLog.txs) :
      blockLog.txs[i].inputTainted =>
        \A j \in 1..Len(BlockAt(height)[i].vout) :
          ReadsAsTainted(Get(taintedOut, <<blockLog.txs[i].txid, j - 1>>))

\* C9: when T_i is tainting and a later T_j of the same block spends one of
\* its outputs, T_j is tainting too, with degree one more than T_i's
C9_InBlockPropagation ==
  pc = "processed" =>
    \A i, j \in 1..Len(blockLog.txs) :
      ( /\ i < j
        /\ blockLog.txs[i].spreading
        /\ \E k \in 1..Len(BlockAt(height)[j].vin) :
             /\ ~BlockAt(height)[j].vin[k].coinbase
             /\ BlockAt(height)[j].vin[k].txid = blockLog.txs[i].txid )
      => /\ blockLog.txs[j].spreading
         /\ blockLog.txs[i].currentDegree.t = "num"
         /\ blockLog.txs[j].currentDegree = Num(blockLog.txs[i].currentDegree.n + 1)

\* the value an input of the block just processed was seen with
SeenDegree(vin) ==
  IF <<vin.txid, vin.vout>> \in WrittenKeys
  THEN WrittenValue(<<vin.txid, vin.vout>>)
  ELSE Get(taintedOut, <<vin.txid, vin.vout>>)

\* the tainted inputs whose degree is a number: a stored or in-block number,
\* or a seed outpoint (degree 0)
NumberedInputs(tx) ==
  { k \in 1..Len(tx.vin) : ~tx.vin[k].coinbase /\ SeenDegree(tx.vin[k]).t \in {"num", "obj"} }

\* C10: a transaction with tainted inputs of degrees D that pays no seed
\* address gives its outputs degree 1 + min(D), and takes as source the
\* prevout address of the first input whose degree is min(D)
C10_MultiInputMinimum ==
  pc = "processed" =>
    \A i \in 1..Len(blockLog.txs) :
      LET tx == BlockAt(height)[i]
          D == NumberedInputs(tx)
          first == CHOOSE k \in D :
                     /\ \A m \in D : SeenDegree(tx.vin[k]).n <= SeenDegree(tx.vin[m]).n
                     /\ \A m \in D : SeenDegree(tx.vin[m]).n = SeenDegree(tx.vin[k]).n => k <= m
      IN  ( /\ D # {}
            /\ \A k \in 1..Len(tx.vin) :
                 tx.vin[k].coinbase \/ SeenDegree(tx.vin[k]).t \in {"num", "obj", "absent"}
            /\ ~GoesToSatoshi(tx) )
          => /\ blockLog.txs[i].currentDegree = Num(SeenDegree(tx.vin[first]).n + 1)
             /\ blockLog.txs[i].sourceAddress = getAddressFromScript(tx.vin[first].prevout)


\* C7: every seed address that has a tainted: record has degree 0 and an
\* empty path, whatever blocks were processed
C7_SeedImmutable ==
  \A i \in 1..Len(SATOSHI_ADDRESSES) :
    Has(mainStore.tainted, SATOSHI_ADDRESSES[i]) =>
      /\ mainStore.tainted[SATOSHI_ADDRESSES[i]].degree = Num(0)
      /\ mainStore.tainted[SATOSHI_ADDRESSES[i]].path = <<>>

\* the seed records are written and a block was processed in which a
\* transaction with a tainted input pays a seed address
C7_Witness ==
  /\ pc = "processed"
  /\ ~addrInitPending
  /\ \A i \in 1..Len(SATOSHI_ADDRESSES) : Has(mainStore.tainted, SATOSHI_ADDRESSES[i])
  /\ \E i \in 1..Len(blockLog.txs) :
       /\ blockLog.txs[i].inputTainted
       /\ GoesToSatoshi(BlockAt(height)[i])
       /\ <<blockLog.txs[i].txid, 0>> \in WrittenKeys

\* C11: a transaction none of whose inputs spends a tainted outpoint, whether
\* or not it pays a seed address, has none of its outputs written to
\* tainted_out and stages no tainted: record for a non-seed address
C11_OutgoingOnlyTaint ==
  pc = "processed" =>
    \A i \in 1..Len(blockLog.txs) :
      ~blockLog.txs[i].inputTainted =>
        /\ \A j \in 1..Len(BlockAt(height)[i].vout) :
             <<blockLog.txs[i].txid, j - 1>> \notin WrittenKeys
        /\ \A k \in 1..Len(mb.batch) :
             (mb.batch[k].key[1] = "tainted" /\ mb.batch[k].value.txHash = blockLog.txs[i].txid)
               => IsSatoshi(mb.batch[k].key[2])

\* the degree a tainted_out value stands for is raised from `old` to `new`:
\* the seed object carries degree 0, null is a stored Infinity
OutDegreeRaised(old, new) ==
  \/ new.t = "null" /\ old.t \in {"num", "obj"}
  \/ new.t \in {"num", "obj"} /\ old.t \in {"num", "obj"} /\ new.n > old.n

\* C12: once a tainted_out entry exists, no step of the scanner or of the seed
\* builder deletes it or replaces it with a higher degree
C12_OutpointMonotone ==
  [][\A o \in DOMAIN taintedOut :
       /\ o \in DOMAIN taintedOut'
       /\ ~OutDegreeRaised(taintedOut[o], taintedOut'[o])]_vars

\* a scanner pass met existing entries: a spreading transaction found all its
\* outputs already recorded and wrote none of them
C12_Witness ==
  /\ pc = "processed"
  /\ \E i \in 1..Len(blockLog.txs) :
       /\ blockLog.txs[i].spreading
       /\ \A j \in 1..Len(BlockAt(height)[i].vout) :
            /\ Has(taintedOut, <<blockLog.txs[i].txid, j - 1>>)
            /\ <<blockLog.txs[i].txid, j - 1>> \notin WrittenKeys

\* C13: once stop() was called during a window, no further block is processed
\* and scan_progress is not published again, except for the block under way
\* when the flush made by stop() left nothing staged
C13_StopAtBlockBoundary ==
  [][/\ (~isRunning /\ pc = "block")
          => (pc' # "processed" /\ scanProgress' = scanProgress)
     /\ (~isRunning /\ pc = "processed" /\ scanProgress' # scanProgress)
          => mb.batch = <<>>]_vars

\* a step in which a valid, non-empty main batch fails to commit: the store
\* is left as it was and the batch is invalidated or replaced
FlushFailedStep ==
  /\ mb.open /\ mb.valid /\ mb.count > 0
  /\ mainStore' = mainStore
  /\ mainStore # ApplyBatch(mainStore, mb.batch)
  /\ (~mb'.valid \/ mb'.batch = <<>>)
  /\ crashes' = crashes

\* C14: when a main-batch commit fails, scan_progress after the step is below
\* every block that had writes in that batch, so those blocks are scanned again
C14_FailedCommitNotPublished ==
  [][FlushFailedStep =>
       \A i \in 1..Len(mb.batch) :
         ~scanProgress'.present \/ scanProgress'.lastBlock < mb.batch[i].height]_vars

\* C15: when satoshi_coinbase_initialized is present, every coinbase output of
\* every curated height has a tainted_out entry of degree 0
C15_SeedComplete ==
  coinbaseInitialized =>
    \A o \in CoinbaseOutpoints(SeedHeights) :
      /\ Has(taintedOut, o)
      /\ taintedOut[o] \in {SEEDOBJ, Num(0)}

\* C16: a start that finds satoshi_coinbase_initialized present makes the seed
\* builder return at once: no block is fetched and tainted_out is left as it is
C16_SeedBuilderOneShot ==
  [][(coinbaseInitialized /\ coinbaseInit = "pending" /\ coinbaseInit' # "pending"
        /\ crashes' = crashes)
       => (coinbaseInit' = "skipped" /\ taintedOut' = taintedOut)]_vars

\* the service was started again with the flag present and the callback of
\* step 5 has returned, the seed outpoints being recorded
C16_Witness ==
  /\ coinbaseInit = "skipped"
  /\ coinbaseInitialized
  /\ crashes > 0
  /\ \A o \in CoinbaseOutpoints(SeedHeights) : Has(taintedOut, o)

\* the answer the three-way rule gives for an address over the main store
ExpectedResult(address) ==
  IF IsSatoshi(address) THEN SeedResult
  ELSE IF Has(mainStore.tainted, address) THEN TaintedResult(mainStore.tainted[address])
  ELSE UnconnectedResult

\* C17: a check of a valid address that the store answers returns Seed iff the
\* address is a seed, else Tainted with the stored degree and path iff a
\* tainted: record exists, else Unconnected
C17_CheckResults ==
  [][(/\ lastCheck' # lastCheck
      /\ Truthy(validateAndSanitizeAddress(lastCheck'.address))
      /\ (IsSatoshi(lastCheck'.address) \/ lastCheck'.lookup = "answered"))
       => /\ lastCheck'.status = 200
          /\ lastCheck'.body = ExpectedResult(lastCheck'.address)]_vars

\* a check of a non-seed address was answered Tainted
C17_Witness ==
  /\ lastCheck.lookup = "answered"
  /\ lastCheck.status = 200
  /\ lastCheck.body.isConnected
  /\ ~lastCheck.body.isSatoshiAddress
  /\ Len(lastCheck.body.connectionPath) > 0

\* C18: for a valid non-seed address, a lookup that finds no record is
\* answered Unconnected and a lookup that times out is answered 503
C18_QueryErrorTranslation ==
  (lastCheck.lookup # "none"
     /\ Truthy(validateAndSanitizeAddress(lastCheck.address))
     /\ ~IsSatoshi(lastCheck.address))
    => /\ (lastCheck.lookup = "answered" /\ ~lastCheck.found)
            => (lastCheck.status = 200 /\ lastCheck.body = UnconnectedResult)
       /\ lastCheck.lookup = "timeout" => lastCheck.status = 503

\* C19: a step that answers a check leaves both stores as they were
C19_QueryNeverMutates ==
  [][lastCheck' # lastCheck =>
       /\ mainStore' = mainStore
       /\ taintedOut' = taintedOut
       /\ scanProgress' = scanProgress
       /\ coinbaseInitialized' = coinbaseInitialized]_vars

\* a check found a record the scanner had committed, and the scanner is in
\* the middle of a block with writes staged
C19_Witness ==
  /\ lastCheck.status = 200
  /\ lastCheck.found
  /\ pc = "processed"
  /\ mb.count > 0

\* the path of a record leads from its seed address to `address`
ValidPath(address, rec) ==
  /\ Len(rec.path) > 0
  /\ rec.path[1].from = rec.originalSatoshiAddress
  /\ \A k \in 1..(Len(rec.path) - 1) : rec.path[k].to = rec.path[k + 1].from
  /\ rec.path[Len(rec.path)].to = address

\* C20: every stored TaintRecord of a non-seed address has a path that starts
\* at its seed address, whose consecutive hops share the intermediate
\* address, and that ends at the record's own address
C20_PathValidity ==
  \A a \in DOMAIN mainStore.tainted :
    ~IsSatoshi(a) => ValidPath(a, mainStore.tainted[a])

\* C21: every stored TaintRecord has a path of exactly `degree` hops
C21_WitnessLength ==
  \A a \in DOMAIN mainStore.tainted :
    mainStore.tainted[a].degree = Num(Len(mainStore.tainted[a].path))

\* a record is stored whose path length is not its degree
C21_Counterexample ==
  \E a \in DOMAIN mainStore.tainted :
    mainStore.tainted[a].degree # Num(Len(mainStore.tainted[a].path))

\* the scan store, the main store and the parent cache once the block at
\* height h is processed with the batch m and everything staged is committed
ProcessAndCommit(h, st, m) ==
  LET r == processBlock(BlockAt(h), st.taintedOut, st.store, m, h)
      f == flushBatch(r.mb, st.store, TRUE)
  IN  [taintedOut |-> r.taintedOut, store |-> f.store, cache |-> r.mb.cache,
       log |-> r.log, staged |-> r.mb.count]

\* the block at `height` processed once from the present state, and once more
FirstPass == ProcessAndCommit(height, [taintedOut |-> taintedOut, store |-> mainStore], mb)
SecondPass ==
  ProcessAndCommit(height, FirstPass,
                   [db |-> TRUE, open |-> TRUE, batch |-> <<>>, count |-> 0, valid |-> TRUE,
                    cache |-> FirstPass.cache, cap |-> ParentCacheMax])

\* C22: a block processed a second time, after its first processing was fully
\* committed, leaves tainted_out and every tainted: record as they were
C22_ReplayIdempotence ==
  (pc = "block" /\ mb.open /\ mb.valid) =>
    /\ SecondPass.taintedOut = FirstPass.taintedOut
    /\ SecondPass.store.tainted = FirstPass.store.tainted

\* the first pass writes outpoints and records; the replay meets a spreading
\* transaction again and writes an outpoint once more
C22_Witness ==
  /\ pc = "block" /\ mb.open /\ mb.valid
  /\ FirstPass.log.written # <<>>
  /\ FirstPass.staged > 0
  /\ SecondPass.log.written # <<>>

\* C23: each value written to scan_progress is greater than or equal to the
\* one stored before, and a stored scan_progress is never removed
C23_ProgressMonotone ==
  [][scanProgress.present =>
       /\ scanProgress'.present
       /\ scanProgress'.lastBlock >= scanProgress.lastBlock]_vars

\* after a crash the restarted scanner resumed from the stored progress, and
\* in a window during which stop() was called it has stored a higher one
C23_Witness ==
  /\ crashes > 0
  /\ ~isRunning
  /\ pc = "final"
  /\ lastProcessedBlock >= 0
  /\ scanProgress.lastBlock > lastProcessedBlock

\* C24: while the service runs and no pass is under way, a next invocation of
\* syncLoop is pending, whatever the last iteration did; and while the service
\* is stopped no pass begins
C24_LoopNeverDies ==
  [][/\ (isRunning' /\ pc' = "idle") => timers' > 0
     /\ ~isRunning =>
          /\ pc = "idle" => pc' = "idle"
          /\ passErrors' = passErrors
          /\ currentHeight' = currentHeight
          /\ lastProcessedBlock' = lastProcessedBlock]_vars

\* a pass failed, then a window with a failed block ended, and the next
\* invocation is pending
C24_Witness ==
  /\ isRunning
  /\ pc = "idle"
  /\ passErrors > 0
  /\ windowFailed # -1
  /\ timers > 0

\* C25: start() called while the service is down and the node reports
\* initial block download starts no sync loop; no block is processed and
\* scan_progress is not written
C25_RefuseDuringIBD ==
  [][(nodeIBD /\ ~isRunning /\ pc = "idle") =>
       /\ ~isRunning'
       /\ timers' <= timers
       /\ pc' = "idle"
       /\ scanProgress' = scanProgress]_vars

\* C26: the number of requests in flight against the node never exceeds the
\* configured maximum, in getBlockHashes and batchGetTransactions as elsewhere
C26_BoundedInFlight == rpc.inFlight <= MaxParallelRequests

\* C27: a block is marked failed only when the request for it was refused on
\* every one of the configured attempts; a failure that a later attempt would
\* have overcome does not fail the block
C27_RetryBeforeFailure == windowFailed # -1 => failedFetch = "persistent"

\* the new degree is strictly smaller than the stored one; a stored null is
\* the encoding of Infinity
StrictlySmaller(new, stored) ==
  /\ new.t = "num"
  /\ \/ stored.t = "null"
     \/ stored.t = "num" /\ new.n < stored.n

\* the writes for tainted:<address> that the transaction txid staged in the
\* block just processed
StagedBy(address, txid) ==
  SelectSeq(mb.batch, LAMBDA op : /\ op.key = <<"tainted", address>>
                                  /\ op.height = height
                                  /\ op.value.txHash = txid)

\* C28: for a transaction of the block just processed that gives a degree to
\* an address with a stored record: a strictly smaller degree replaces the
\* record by the new degree and a path ending in the new hop; otherwise the
\* transaction stages nothing for the address
C28_ShorterPathUpgrade ==
  (pc = "processed" /\ mb.open /\ mb.valid) =>
    \A i \in 1..Len(blockLog.txs) :
      \A j \in 1..Len(BlockAt(height)[i].vout) :
        LET e == blockLog.txs[i]
            B == getAddressFromScript(BlockAt(height)[i].vout[j])
            staged == StagedBy(B, e.txid)
        IN  ( /\ e.spreading
              /\ <<e.txid, j - 1>> \in WrittenKeys
              /\ Truthy(B)
              /\ Has(mainStore.tainted, B) )
            => IF StrictlySmaller(e.currentDegree, mainStore.tainted[B].degree)
               THEN /\ staged # <<>>
                    /\ staged[Len(staged)].value.degree = e.currentDegree
                    /\ staged[Len(staged)].value.path # <<>>
                    /\ LET path == staged[Len(staged)].value.path
                       IN  /\ path[Len(path)].to = B
                           /\ path[Len(path)].txHash = e.txid
               ELSE staged = <<>>

\* the distance between the node's tip read by the pass and the progress in
\* the scan store
BlocksBehindStored ==
  currentHeight - (IF scanProgress.present THEN scanProgress.lastBlock ELSE -1)

\* the delay the thresholds give for a distance
DelayFor(blocksBehind) ==
  IF blocksBehind > VeryBehind THEN "5s"
  ELSE IF blocksBehind > Behind THEN "30s"
  ELSE IF blocksBehind > 0 THEN "2min"
  ELSE "syncInterval"

\* C29: when an iteration with known heights has ended and its timer is
\* pending, the delay is the one the thresholds give for the distance between
\* the node's tip and the scan_progress stored after the window
C29_AdaptivePolling ==
  (pc = "idle" /\ nextInterval # "none" /\ currentHeight # -2 /\ lastProcessedBlock # -2)
    => nextInterval = DelayFor(BlocksBehindStored)

C31_ResumePoint ==
  [][/\ (pc = "idle" /\ pc' = "block") =>
          height' = IF scanProgress.present /\ scanProgress.lastBlock >= 0
                    THEN scanProgress.lastBlock + 1
                    ELSE 0
     /\ (pc' = "block" /\ scanProgress'.present) => height' > scanProgress'.lastBlock]_vars

\* C32: the unflushed main batch never holds more than BatchSize operations
C32_BatchBounded == mb.count <= BatchSize

\* C33: the parent cache never holds more than ParentCacheMax entries
C33_CacheCap == Len(mb.cache) <= ParentCacheMax

\* a cap no run reaches: the cache never evicts
Unbounded == 1000

\* the block at `height` processed from the present state with the cache as
\* the code caps it, and with a cache that never evicts
WithEviction == processBlock(BlockAt(height), taintedOut, mainStore, mb, height)
WithoutEviction ==
  processBlock(BlockAt(height), taintedOut, mainStore, [mb EXCEPT !.cap = Unbounded], height)

\* C34: the run whose cache evicts stages exactly the TaintRecords of the run
\* whose cache never evicts, flushed parent or not
C34_EvictionEquivalence ==
  (pc = "block" /\ mb.open /\ mb.valid) => WithEviction.mb.batch = WithoutEviction.mb.batch

\* C35: at most one checkAndSync pass is inside its critical section; a pass
\* under way holds isSyncing; a tick that finds isSyncing set leaves the stores
\* and the batch alone; isSyncing is false again when no pass is under way,
\* failed passes included
C35_MutualExclusion ==
  /\ [](passes <= 1)
  /\ []((passes > 0) <=> isSyncing)
  /\ []((pc # "idle") <=> (passes > 0))
  /\ [][TickSkipped => UNCHANGED <<persistent, mb, pc, height>>]_vars
  /\ [][(passes' > passes) => ~isSyncing]_vars

\* the service was stopped and started again during a pass, and a tick of the
\* new loop has found isSyncing set
C35_Witness ==
  /\ isRunning
  /\ isSyncing
  /\ pc = "processed"
  /\ timers > 0
  /\ nextInterval # "none"

\* C36: whatever start() and stop() calls were made, at most one invocation of
\* syncLoop is scheduled
C36_SingleLoop == timers <= 1

\* getStatus(): the fields of the sync status (null is -2)
getStatus ==
  [isRunning |-> isRunning,
   isSyncing |-> isSyncing,
   lastProcessedBlock |-> lastProcessedBlock,
   currentHeight |-> currentHeight,
   blocksBehind |-> IF currentHeight # -2 /\ lastProcessedBlock # -2
                    THEN currentHeight - lastProcessedBlock
                    ELSE -2]

\* C37: when the status reports isSyncing = false after a completed pass, its
\* lastProcessedBlock is the stored last_block and its blocksBehind is
\* currentHeight minus the stored last_block
C37_StatusConsistency ==
  (/\ ~getStatus.isSyncing
   /\ getStatus.lastProcessedBlock # -2
   /\ scanProgress.present)
    => /\ getStatus.lastProcessedBlock = scanProgress.lastBlock
       /\ getStatus.blocksBehind = getStatus.currentHeight - scanProgress.lastBlock

\* the scanner is ready and has processed a block: the block's log is held,
\* or its height has been stored
ReadyAndScanning == dbReady /\ (blockLog # NoLog \/ scanProgress.present)

\* C38: once the extraction scheduled by a start without the seed file has
\* succeeded, the running scanner eventually is ready and has processed a
\* block, in the same process
C38_StartWithoutSeedFile ==
  (seedFile = "extracted" /\ isRunning) ~> ReadyAndScanning

\* C39: a failing block of the bulk scan stores the height before it and is
\* tried again; the stored last_block stays below the height being scanned;
\* when the loop of the scan has run to its end the stored last_block has
\* reached the tip read at the start
C39_BulkScanRetry ==
  /\ [][(bulk.active /\ bulk' = bulk /\ scanProgress' # scanProgress)
          => (scanProgress'.present /\ scanProgress'.lastBlock = bulk.height - 1)]_vars
  /\ []((bulk.active /\ scanProgress.present) => scanProgress.lastBlock < bulk.height)
  /\ [][(bulk.active /\ ~bulk'.active /\ bulk.height >= bulk.currentHeight)
          => (scanProgress.present /\ scanProgress.lastBlock >= bulk.currentHeight)]_vars

\* C40: when no flushBatch call is under way, the stored daily pageViews and
\* the stored totalPageViews are the number of events accepted and flushed
C40_AnalyticsCounts ==
  (\A i \in 1..MaxFlushes : analytics.flushes[i].stage = "none")
    => /\ analytics.pageViews = analytics.accepted - analytics.eventBatch
       /\ analytics.totalPageViews = analytics.accepted - analytics.eventBatch

=============================================================================
